---- MODULE Spec2Model ----
(***************************************************************************)
(* A model of the Swift expression AST of include/swift/AST/Expr.h: the    *)
(* ExprKind enumeration, the Expr base class, the eight expression classes *)
(* with their constructors and classof tests, and the ASTContext arena the *)
(* nodes are allocated from.                                               *)
(*                                                                         *)
(* An Expr* is an address in the arena; `nodes` maps the address of every  *)
(* constructed object to its fields.  Type*, NamedDecl* and SMLoc values   *)
(* are opaque handles.                                                     *)
(***************************************************************************)
EXTENDS Integers, Sequences, FiniteSets, TLC

VARIABLES nodes, arena, call, status

vars == <<nodes, arena, call, status>>

\* ------------------------------------------------------------------ bounds

\* Size of the arena's slab, in 8-byte words.
ArenaWords == 10

\* Longest sub-expression array a caller passes.
MaxElems == 2

\* Most objects of the base class Expr itself a caller builds.
MaxBareExprs == 1

\* ------------------------------------------------------- opaque handles

\* The null Expr*.  The arena hands out addresses above it.
NULL == 0

\* A null Expr** (or PointerUnion*), and one pointing at the slots a.
NullArray == [isNull |-> TRUE, slots |-> <<>>]

ArrayAt(a) == [isNull |-> FALSE, slots |-> a]

\* Type* handles of the external type system; "Void" is the unit type.
Types == {"Int", "Void"}

unitType == "Void"

\* A read through a wild pointer yields whatever bits were there: the handle
\* of some type (a neighbouring node's, say) or no valid handle at all.
Garbage == "Garbage"

NamedDecls == {"d"}

\* The inactive member of a PointerUnion slot.
NoDecl == "nodecl"

SMLocs == {"L"}

StringRefs == {"4"}

Alignments == {8}

\* ---------------------------------------------------------------- ExprKind

IntegerLiteralKind == 0

DeclRefExprKind == 1

TupleExprKind == 2

ApplyExprKind == 3

SequenceExprKind == 4

BraceExprKind == 5

ClosureExprKind == 6

BinaryExprKind == 7

\* The values of an ExprKind.
ExprKinds == {IntegerLiteralKind, DeclRefExprKind, TupleExprKind,
              ApplyExprKind, SequenceExprKind, BraceExprKind,
              ClosureExprKind, BinaryExprKind}

\* The eight classes derived from Expr.
Classes == {"IntegerLiteral", "DeclRefExpr", "TupleExpr", "ApplyExpr",
            "SequenceExpr", "BraceExpr", "ClosureExpr", "BinaryExpr"}

\* -------------------------------------------------------------------- Expr

\* Expr(ExprKind kind, Type *ty) : Kind(kind), Ty(ty) {}
Expr(kind, ty) == [Kind |-> kind, Ty |-> ty]

\* The most-derived class of the object at E (the constructor that built it).
ClassOf(E) == E.cls

\* A complete object of class Expr: the base class built on its own.
ExprObject(kind, ty) ==
  LET base == Expr(kind, ty)
  IN  [cls |-> "Expr", Kind |-> base.Kind, Ty |-> base.Ty]

\* ---------------------------------------------------------- the eight classes

\* IntegerLiteral(StringRef V, SMLoc L, Type *Ty)
\*   : Expr(IntegerLiteralKind, Ty), Val(V), Loc(L) {}
IntegerLiteral(V, L, Ty) ==
  LET base == Expr(IntegerLiteralKind, Ty)
  IN  [cls |-> "IntegerLiteral", Kind |-> base.Kind, Ty |-> base.Ty,
       Val |-> V, Loc |-> L]

\* DeclRefExpr(NamedDecl *d, SMLoc L, Type *Ty)
\*   : Expr(DeclRefExprKind, Ty), D(d), Loc(L) {}
DeclRefExpr(d, L, Ty) ==
  LET base == Expr(DeclRefExprKind, Ty)
  IN  [cls |-> "DeclRefExpr", Kind |-> base.Kind, Ty |-> base.Ty,
       D |-> d, Loc |-> L]

\* TupleExpr(SMLoc lparenloc, Expr **subexprs, unsigned numsubexprs,
\*           SMLoc rparenloc, Type *Ty)
\*   : Expr(TupleExprKind, Ty), LParenLoc(lparenloc), SubExprs(subexprs),
\*     NumSubExprs(numsubexprs), RParenLoc(rparenloc) {}
TupleExpr(lparenloc, subexprs, numsubexprs, rparenloc, Ty) ==
  LET base == Expr(TupleExprKind, Ty)
  IN  [cls |-> "TupleExpr", Kind |-> base.Kind, Ty |-> base.Ty,
       LParenLoc |-> lparenloc, SubExprs |-> subexprs,
       NumSubExprs |-> numsubexprs, RParenLoc |-> rparenloc]

\* ApplyExpr(Expr *fn, Expr *arg, Type *Ty)
\*   : Expr(ApplyExprKind, Ty), Fn(fn), Arg(arg) {}
ApplyExpr(fn, arg, Ty) ==
  LET base == Expr(ApplyExprKind, Ty)
  IN  [cls |-> "ApplyExpr", Kind |-> base.Kind, Ty |-> base.Ty,
       Fn |-> fn, Arg |-> arg]

\* numElements-1 on a 32-bit unsigned, as two 16-bit halves (hi, lo).
Dec32(numElements) ==
  LET hi == numElements \div 65536
      lo == numElements % 65536
      borrow == IF lo = 0 THEN 1 ELSE 0
  IN  [hi |-> (hi + 65536 - borrow) % 65536, lo |-> (lo + 65535) % 65536]

\* Whether elements[idx] is a slot of the array the caller passed.
InBounds(elements, idx) ==
  /\ ~elements.isNull
  /\ idx.hi = 0
  /\ idx.lo < Len(elements.slots)

\* Whether elements[numElements-1]->Ty reads a live node's Ty: the array is
\* there, the index is inside it, and the slot holds a node of the arena.
LastTyDefined(mem, elements, numElements) ==
  /\ InBounds(elements, Dec32(numElements))
  /\ elements.slots[Dec32(numElements).lo + 1] \in DOMAIN mem

\* elements[0]->Ty: the first element's type in place of the last's.
LastTy_First(mem, elements, numElements) ==
  IF elements.slots[1] \in DOMAIN mem THEN mem[elements.slots[1]].Ty
                                      ELSE Garbage

\* elements[numElements-1]->Ty, where that read is defined.
LastTy(mem, elements, numElements) ==
  mem[elements.slots[Dec32(numElements).lo + 1]].Ty

\* SequenceExpr(Expr **elements, unsigned numElements)
\*   : Expr(SequenceExprKind, elements[numElements-1]->Ty),
\*     Elements(elements), NumElements(numElements) {}
\* lastTy is the value the read elements[numElements-1]->Ty produced.
SequenceExpr(elements, numElements, lastTy) ==
  LET base == Expr(SequenceExprKind, lastTy)
  IN  [cls |-> "SequenceExpr", Kind |-> base.Kind, Ty |-> base.Ty,
       Elements |-> elements, NumElements |-> numElements]

\* BraceExpr(SMLoc lbloc, PointerUnion<Expr*, NamedDecl*> *elements,
\*           unsigned numelements, bool missingsemi, SMLoc rbloc, Type *Ty)
\*   : Expr(BraceExprKind, Ty), LBLoc(lbloc), Elements(elements),
\*     NumElements(numelements), MissingSemi(missingsemi), RBLoc(rbloc) {}
BraceExpr(lbloc, elements, numelements, missingsemi, rbloc, Ty) ==
  LET base == Expr(BraceExprKind, Ty)
  IN  [cls |-> "BraceExpr", Kind |-> base.Kind, Ty |-> base.Ty,
       LBLoc |-> lbloc, Elements |-> elements, NumElements |-> numelements,
       MissingSemi |-> missingsemi, RBLoc |-> rbloc]

\* ClosureExpr passing its neighbour's tag to Expr.
ClosureExpr_WrongKind(input, ResultTy) ==
  LET base == Expr(BraceExprKind, ResultTy)
  IN  [cls |-> "ClosureExpr", Kind |-> base.Kind, Ty |-> base.Ty,
       Input |-> input]

\* ClosureExpr(Expr *input, Type *ResultTy)
\*   : Expr(ClosureExprKind, ResultTy), Input(input) {}
ClosureExpr(input, ResultTy) ==
  LET base == Expr(ClosureExprKind, ResultTy)
  IN  [cls |-> "ClosureExpr", Kind |-> base.Kind, Ty |-> base.Ty,
       Input |-> input]

\* BinaryExpr(Expr *lhs, NamedDecl *fn, SMLoc oploc, Expr *rhs, Type *Ty)
\*   : Expr(BinaryExprKind, Ty), LHS(lhs), Fn(fn), OpLoc(oploc), RHS(rhs) {}
BinaryExpr(lhs, fn, oploc, rhs, Ty) ==
  LET base == Expr(BinaryExprKind, Ty)
  IN  [cls |-> "BinaryExpr", Kind |-> base.Kind, Ty |-> base.Ty,
       LHS |-> lhs, Fn |-> fn, OpLoc |-> oploc, RHS |-> rhs]

\* ----------------------------------------------------------------- classof

\* static bool classof(const Expr *E) { return E->Kind == <Class>Kind; }
classof_IntegerLiteral(E) == E.Kind = IntegerLiteralKind

classof_DeclRefExpr(E) == E.Kind = DeclRefExprKind

\* TupleExpr::classof comparing against ApplyExpr's tag.
classof_TupleExpr_ApplyKind(E) == E.Kind = ApplyExprKind

classof_TupleExpr(E) == E.Kind = TupleExprKind

classof_ApplyExpr(E) == E.Kind = ApplyExprKind

classof_SequenceExpr(E) == E.Kind = SequenceExprKind

\* BraceExpr::classof left comparing against SequenceExpr's tag.
classof_BraceExpr_SeqKind(E) == E.Kind = SequenceExprKind

classof_BraceExpr(E) == E.Kind = BraceExprKind

classof_ClosureExpr(E) == E.Kind = ClosureExprKind

classof_BinaryExpr(E) == E.Kind = BinaryExprKind

\* The tag of the class named T in ExprKind.
KindOfClass(T) ==
  CASE T = "IntegerLiteral" -> IntegerLiteralKind
    [] T = "DeclRefExpr"    -> DeclRefExprKind
    [] T = "TupleExpr"      -> TupleExprKind
    [] T = "ApplyExpr"      -> ApplyExprKind
    [] T = "SequenceExpr"   -> SequenceExprKind
    [] T = "BraceExpr"      -> BraceExprKind
    [] T = "ClosureExpr"    -> ClosureExprKind
    [] T = "BinaryExpr"     -> BinaryExprKind

\* T::classof(E) for the class named T.
classof(T, E) ==
  CASE T = "IntegerLiteral" -> classof_IntegerLiteral(E)
    [] T = "DeclRefExpr"    -> classof_DeclRefExpr(E)
    [] T = "TupleExpr"      -> classof_TupleExpr(E)
    [] T = "ApplyExpr"      -> classof_ApplyExpr(E)
    [] T = "SequenceExpr"   -> classof_SequenceExpr(E)
    [] T = "BraceExpr"      -> classof_BraceExpr(E)
    [] T = "ClosureExpr"    -> classof_ClosureExpr(E)
    [] T = "BinaryExpr"     -> classof_BinaryExpr(E)

\* ------------------------------------------------------- ASTContext arena

\* sizeof(<Class>) on an LP64 target: the size operator new is asked for.
SizeOf(cls) ==
  CASE cls = "Expr"           -> 16
    [] cls = "IntegerLiteral" -> 40
    [] cls = "DeclRefExpr"    -> 32
    [] cls = "TupleExpr"      -> 48
    [] cls = "ApplyExpr"      -> 32
    [] cls = "SequenceExpr"   -> 32
    [] cls = "BraceExpr"      -> 48
    [] cls = "ClosureExpr"    -> 24
    [] cls = "BinaryExpr"     -> 48

AlignUp(p, Alignment) == ((p + Alignment - 1) \div Alignment) * Alignment

\* An allocator that hands out the block's address without bumping past it.
Allocate_NoBump(C, Bytes, Alignment) ==
  LET p == AlignUp(C.Cur, Alignment)
  IN  [ptr |-> p,
       arena |-> [C EXCEPT !.Blocks = @ \cup {[addr |-> p, size |-> Bytes]}]]

\* allocate(size, alignment): bump-pointer allocation.  Returns the block's
\* address and the arena after the bump.
Allocate(C, Bytes, Alignment) ==
  LET p == AlignUp(C.Cur, Alignment)
  IN  [ptr |-> p,
       arena |-> [C EXCEPT !.Cur = p + Bytes,
                           !.Blocks = @ \cup {[addr |-> p, size |-> Bytes]}]]

\* void *Expr::operator new(size_t Bytes, ASTContext &C, unsigned Alignment = 8)
operator_new(Bytes, C, Alignment) == Allocate(C, Bytes, Alignment)

\* Placement new over a live node: the object is constructed in the storage
\* of the oldest node when there is one.
Construct_InPlace(mem, ptr, obj) ==
  LET at == IF DOMAIN mem = {} THEN ptr
            ELSE CHOOSE p \in DOMAIN mem : \A q \in DOMAIN mem : p <= q
  IN  [p \in DOMAIN mem \cup {at} |-> IF p = at THEN obj ELSE mem[p]]

\* The memory after an object is constructed in the storage at ptr.
Construct(mem, ptr, obj) ==
  [p \in DOMAIN mem \cup {ptr} |-> IF p = ptr THEN obj ELSE mem[p]]

\* ------------------------------------------------------------ input domains

\* The Expr* values a caller passes: a node it has built, or null.
ExprPtrs == DOMAIN nodes \cup {NULL}

\* Arrays of at most n slots over S.
Arrays(S, n) == UNION {[1..k -> S] : k \in 0..n}

\* One PointerUnion<Expr*, NamedDecl*> slot of a BraceExpr.
BraceSlots ==
  {[tag |-> "Expr", expr |-> e, decl |-> NoDecl] : e \in ExprPtrs}
    \cup {[tag |-> "Decl", expr |-> NULL, decl |-> d] : d \in NamedDecls}

\* The (array, count) pairs a caller passes.  Pointer and count are separate
\* arguments: the count may be below or above the length of the array, and
\* the pointer may be null.
ArrayArgs(S) ==
  ({ArrayAt(a) : a \in Arrays(S, MaxElems)} \cup {NullArray}) \X (0..MaxElems)

\* -------------------------------------------------------------------- state

Running == status = "running" /\ ~arena.Torn

\* The process ended (a fault, an abort): its memory is gone with it.
Ended(how) ==
  /\ status' = how
  /\ nodes' = <<>>

\* Whether the slab still holds an object of class cls.
CanAllocate(cls) ==
  /\ Running
  /\ \E al \in Alignments :
       AlignUp(arena.Cur, al) + SizeOf(cls) <= arena.End

Init ==
  /\ nodes = <<>>
  /\ arena = [Cur |-> 8, End |-> 8 + 8 * ArenaWords, Blocks |-> {},
              Torn |-> FALSE]
  /\ call = [op |-> "none"]
  /\ status = "running"

\* new (C, Alignment) <Class>(args): operator new, then the constructor.
New(cls, Alignment, obj, args) ==
  LET r == operator_new(SizeOf(cls), arena, Alignment)
  IN  /\ arena' = r.arena
      /\ nodes' = Construct(nodes, r.ptr, obj)
      /\ call' = [op |-> "new", cls |-> cls, args |-> args,
                  ok |-> TRUE, ret |-> r.ptr]
      /\ UNCHANGED status

\* new (C) Expr(kind, ty): the base class is concrete and its constructor
\* public, so a caller can build an object that is none of the eight classes
\* with any of the eight tags.
NewExpr ==
  /\ CanAllocate("Expr")
  /\ Cardinality({E \in DOMAIN nodes : ClassOf(nodes[E]) = "Expr"})
       < MaxBareExprs
  /\ \E kind \in ExprKinds, ty \in Types, al \in Alignments :
       New("Expr", al, ExprObject(kind, ty), [kind |-> kind, ty |-> ty])

NewIntegerLiteral ==
  /\ CanAllocate("IntegerLiteral")
  /\ \E V \in StringRefs, L \in SMLocs, Ty \in Types, al \in Alignments :
       New("IntegerLiteral", al, IntegerLiteral(V, L, Ty),
           [V |-> V, L |-> L, Ty |-> Ty])

NewDeclRefExpr ==
  /\ CanAllocate("DeclRefExpr")
  /\ \E d \in NamedDecls, L \in SMLocs, Ty \in Types, al \in Alignments :
       New("DeclRefExpr", al, DeclRefExpr(d, L, Ty),
           [d |-> d, L |-> L, Ty |-> Ty])

NewTupleExpr ==
  /\ CanAllocate("TupleExpr")
  /\ \E sub \in ArrayArgs(ExprPtrs), l \in SMLocs, r \in SMLocs,
        Ty \in Types, al \in Alignments :
       New("TupleExpr", al, TupleExpr(l, sub[1], sub[2], r, Ty),
           [subexprs |-> sub[1], numsubexprs |-> sub[2], Ty |-> Ty])

NewApplyExpr ==
  /\ CanAllocate("ApplyExpr")
  /\ \E fn \in ExprPtrs, arg \in ExprPtrs, Ty \in Types, al \in Alignments :
       New("ApplyExpr", al, ApplyExpr(fn, arg, Ty),
           [fn |-> fn, arg |-> arg, Ty |-> Ty])

\* The mem-initializer reads elements[numElements-1]->Ty after operator new
\* returned.  Where that read is undefined (null array, index outside the
\* array, null slot) the build either faults or goes on with whatever the
\* wild read produced.
NewSequenceExpr ==
  /\ CanAllocate("SequenceExpr")
  /\ \E el \in ArrayArgs(ExprPtrs), al \in Alignments :
       LET args == [elements |-> el[1], numElements |-> el[2]]
       IN  IF LastTyDefined(nodes, el[1], el[2])
           THEN New("SequenceExpr", al,
                    SequenceExpr(el[1], el[2], LastTy(nodes, el[1], el[2])),
                    args)
           ELSE \/ /\ Ended("crashed")
                   /\ arena' = operator_new(SizeOf("SequenceExpr"), arena, al).arena
                   /\ call' = [op |-> "new", cls |-> "SequenceExpr",
                               args |-> args, ok |-> FALSE, ret |-> NULL]
                \/ \E wild \in Types \cup {Garbage} :
                     New("SequenceExpr", al,
                         SequenceExpr(el[1], el[2], wild), args)

NewBraceExpr ==
  /\ CanAllocate("BraceExpr")
  /\ \E el \in ArrayArgs(BraceSlots), missingsemi \in BOOLEAN,
        l \in SMLocs, r \in SMLocs, Ty \in Types, al \in Alignments :
       New("BraceExpr", al, BraceExpr(l, el[1], el[2], missingsemi, r, Ty),
           [elements |-> el[1], numelements |-> el[2],
            missingsemi |-> missingsemi, Ty |-> Ty])

NewClosureExpr ==
  /\ CanAllocate("ClosureExpr")
  /\ \E input \in ExprPtrs, ResultTy \in Types, al \in Alignments :
       New("ClosureExpr", al, ClosureExpr(input, ResultTy),
           [input |-> input, ResultTy |-> ResultTy])

NewBinaryExpr ==
  /\ CanAllocate("BinaryExpr")
  /\ \E lhs \in ExprPtrs, rhs \in ExprPtrs, fn \in NamedDecls,
        oploc \in SMLocs, Ty \in Types, al \in Alignments :
       New("BinaryExpr", al, BinaryExpr(lhs, fn, oploc, rhs, Ty),
           [lhs |-> lhs, fn |-> fn, rhs |-> rhs, Ty |-> Ty])

\* ----------------------------------------------------------------- dispatch

\* isa<T>(E) returns T::classof(E).
isaResult(T, E, mem) == classof(T, mem[E])

\* cast<T>(E): E as a T; the failure path is taken when isa<T>(E) is false.
castResult(T, E, mem) ==
  IF isaResult(T, E, mem) THEN [ok |-> TRUE, ret |-> E]
                          ELSE [ok |-> FALSE, ret |-> NULL]

\* dyn_cast<T>(E): E as a T when isa<T>(E), null (absent) otherwise.
dyn_castResult(T, E, mem) == IF isaResult(T, E, mem) THEN E ELSE NULL

\* The exhaustive visit of E: the handlers whose kind test accepts E.
visitHandlers(E, mem) == {T \in Classes : isaResult(T, E, mem)}

\* Some cast<T>(E) is evaluated.  A cast that succeeds returns E and leaves
\* the program as it was; a failed cast ends the program.
cast ==
  /\ Running
  /\ \E c \in {[T |-> T, Kind |-> nodes[E].Kind,
                  ok |-> castResult(T, E, nodes).ok] :
                   T \in Classes, E \in DOMAIN nodes} :
       IF c.ok THEN UNCHANGED <<nodes, call, status>>
               ELSE /\ Ended("aborted")
                    /\ call' = [op |-> "cast", T |-> c.T, Kind |-> c.Kind,
                                ok |-> FALSE]
  /\ UNCHANGED arena

\* The arena is released as a unit: every node it produced is gone.  Blocks
\* keeps the addresses it had handed out.
Teardown ==
  /\ Running
  /\ arena' = [arena EXCEPT !.Torn = TRUE]
  /\ nodes' = <<>>
  /\ call' = [op |-> "teardown"]
  /\ UNCHANGED status

Next ==
  \/ NewExpr
  \/ NewIntegerLiteral
  \/ NewDeclRefExpr
  \/ NewTupleExpr
  \/ NewApplyExpr
  \/ NewSequenceExpr
  \/ NewBraceExpr
  \/ NewClosureExpr
  \/ NewBinaryExpr
  \/ cast
  \/ Teardown

Spec == Init /\ [][Next]_vars

\* ------------------------------------------------------------------- claims

\* The nodes of one class.
NodesOf(cls) == {E \in DOMAIN nodes : ClassOf(nodes[E]) = cls}

\* The last operation was the construction of a cls.
Constructing(cls) == call.op = "new" /\ call.cls = cls

\* A factory refused: no node, and the caller goes on with the error.
ConstructionError == call.op = "new" /\ ~call.ok /\ status = "running"

\* C1: constructing a SequenceExpr with numElements = 0 is refused with a
\* construction error, whatever array is passed; no node is produced.
C1_EmptySequenceRejected ==
  (Constructing("SequenceExpr") /\ call.args.numElements = 0)
    => ConstructionError

\* C2: a SequenceExpr has kind SequenceExprKind, and one built from elements
\* e1..en, n >= 1 (the count lies within the array and en is a node), has the
\* type of its last element en.
C2_SequenceTypeIsLast ==
  \A S \in NodesOf("SequenceExpr") :
    /\ nodes[S].Kind = SequenceExprKind
    /\ LastTyDefined(nodes, nodes[S].Elements, nodes[S].NumElements)
         => nodes[S].Ty =
              nodes[nodes[S].Elements.slots[nodes[S].NumElements]].Ty

\* A two-element sequence whose elements differ in type, typed by the last.
C2_Witness ==
  \E S \in NodesOf("SequenceExpr") :
    /\ LastTyDefined(nodes, nodes[S].Elements, nodes[S].NumElements)
    /\ nodes[S].NumElements = 2
    /\ nodes[S].Elements.slots[1] \in DOMAIN nodes
    /\ nodes[nodes[S].Elements.slots[1]].Ty = "Int"
    /\ nodes[nodes[S].Elements.slots[2]].Ty = "Void"
    /\ nodes[S].Ty = "Void"

\* C3: every TupleExpr with exactly one sub-expression e has e's type,
\* whatever type argument its caller supplied.
C3_SingleTupleDecays ==
  \A t \in NodesOf("TupleExpr") :
    (/\ ~nodes[t].SubExprs.isNull
     /\ nodes[t].NumSubExprs = 1
     /\ Len(nodes[t].SubExprs.slots) >= 1
     /\ nodes[t].SubExprs.slots[1] \in DOMAIN nodes)
      => nodes[t].Ty = nodes[nodes[t].SubExprs.slots[1]].Ty

\* The spec's trailing-semicolon flag: the last expression has its semicolon.
TrailingSemi(b) == ~b.MissingSemi

\* The last element of b is the expression case of its slot and holds an
\* expression.
LastIsExpr(b) ==
  /\ ~b.Elements.isNull
  /\ b.NumElements >= 1
  /\ b.NumElements <= Len(b.Elements.slots)
  /\ b.Elements.slots[b.NumElements].tag = "Expr"
  /\ b.Elements.slots[b.NumElements].expr # NULL

\* C4: every BraceExpr has the unit type when its trailing-semicolon flag is
\* true, and otherwise ends in an expression and has that expression's type.
C4_BraceType ==
  \A b \in NodesOf("BraceExpr") :
    /\ TrailingSemi(nodes[b]) => nodes[b].Ty = unitType
    /\ ~TrailingSemi(nodes[b])
         => /\ LastIsExpr(nodes[b])
            /\ nodes[b].Ty =
                 nodes[nodes[b].Elements.slots[nodes[b].NumElements].expr].Ty

\* C5: for every node and every class T, T::classof accepts the node iff its
\* Kind is T's tag; a node built by T's constructor tests true for T and
\* false for each of the other seven classes.
C5_ClassofIsKindTest ==
  \A E \in DOMAIN nodes : \A T \in Classes :
    /\ classof(T, nodes[E]) <=> nodes[E].Kind = KindOfClass(T)
    /\ ClassOf(nodes[E]) = T
         => \A U \in Classes : classof(U, nodes[E]) <=> U = T

\* An IntegerLiteral that tests true for IntegerLiteral, false for DeclRefExpr.
C5_Witness ==
  \E E \in NodesOf("IntegerLiteral") :
    /\ classof("IntegerLiteral", nodes[E])
    /\ ~classof("DeclRefExpr", nodes[E])

\* C6: cast<T>(n) succeeds iff n's Kind is T's tag and otherwise ends the
\* program without returning; dyn_cast<T>(n) is present under exactly the
\* same condition and absent otherwise.
C6_CastIffVariant ==
  /\ \A E \in DOMAIN nodes : \A T \in Classes :
       /\ castResult(T, E, nodes).ok <=> nodes[E].Kind = KindOfClass(T)
       /\ castResult(T, E, nodes).ok => castResult(T, E, nodes).ret = E
       /\ dyn_castResult(T, E, nodes) # NULL
            <=> nodes[E].Kind = KindOfClass(T)
       /\ dyn_castResult(T, E, nodes) # NULL
            => dyn_castResult(T, E, nodes) = E
  /\ call.op = "cast"
       => /\ ~call.ok
          /\ call.Kind # KindOfClass(call.T)
  /\ call.op = "cast" <=> status = "aborted"

\* A cast<TupleExpr> of a BraceExpr was made and ended the program.
C6_Witness ==
  /\ call.op = "cast"
  /\ call.T = "TupleExpr"
  /\ call.Kind = BraceExprKind
  /\ ~call.ok
  /\ status = "aborted"

\* C7: for every node exactly one of the eight kind tests is true, so the
\* exhaustive visit invokes exactly one handler.
C7_ExactlyOneHandler ==
  \A E \in DOMAIN nodes : Cardinality(visitHandlers(E, nodes)) = 1

\* A BraceExpr whose visit invokes the BraceExpr handler alone, beside a
\* SequenceExpr.
C7_Witness ==
  /\ \E b \in NodesOf("BraceExpr") : visitHandlers(b, nodes) = {"BraceExpr"}
  /\ NodesOf("SequenceExpr") # {}

\* C8: a node's Kind is set by its constructor, to the tag of the class
\* being built for each of the eight classes, and no later step changes it.
C8_KindNeverChanges ==
  [][/\ \A E \in DOMAIN nodes \cap DOMAIN nodes' :
          nodes'[E].Kind = nodes[E].Kind
     /\ \A E \in DOMAIN nodes' \ DOMAIN nodes :
          /\ nodes'[E].Kind \in ExprKinds
          /\ ClassOf(nodes'[E]) \in Classes
               => nodes'[E].Kind = KindOfClass(ClassOf(nodes'[E]))]_vars

\* A DeclRefExpr that has since become the child of a later node, with a
\* third node built after that.
C8_Witness ==
  /\ Cardinality(DOMAIN nodes) = 3
  /\ \E P \in NodesOf("ApplyExpr") :
       /\ nodes[P].Fn \in DOMAIN nodes
       /\ nodes[nodes[P].Fn].Kind = DeclRefExprKind
       /\ \E L \in DOMAIN nodes : L > P

\* C9: constructing a TupleExpr or a SequenceExpr with a null array is
\* refused with a construction error; no node is produced.
C9_NullArrayRejected ==
  /\ (Constructing("TupleExpr") /\ call.args.subexprs.isNull)
       => ConstructionError
  /\ (Constructing("SequenceExpr") /\ call.args.elements.isNull)
       => ConstructionError

\* A node is valid while it is in the arena's memory.
Valid(E) == E \in DOMAIN nodes

\* No two blocks of the arena overlap.
BlocksDisjoint(C) ==
  \A b1 \in C.Blocks : \A b2 \in C.Blocks :
    b1 # b2 => (b1.addr + b1.size <= b2.addr \/ b2.addr + b2.size <= b1.addr)

\* C10: blocks are never freed and never overlap, every node stays as it was
\* built until the teardown (or the end of the program), the teardown
\* invalidates all nodes in one step, and nothing happens to the arena or its
\* nodes after it.
C10_ArenaDiscipline ==
  [][/\ ~arena.Torn
     /\ arena.Blocks \subseteq arena'.Blocks
     /\ BlocksDisjoint(arena')
     /\ \A E \in DOMAIN nodes' :
          \E b \in arena'.Blocks :
            b.addr = E /\ b.size = SizeOf(ClassOf(nodes'[E]))
     /\ IF arena'.Torn \/ status' # "running"
        THEN \A E \in DOMAIN nodes : ~Valid(E)'
        ELSE \A E \in DOMAIN nodes : Valid(E)' /\ nodes'[E] = nodes[E]]_vars

\* Three nodes had been allocated when the arena was torn down.
C10_Witness ==
  /\ arena.Torn
  /\ nodes = <<>>
  /\ Cardinality(arena.Blocks) = 3

====
